---- MODULE Spec2Model ----
(***************************************************************************)
(* A model of src/stock.py: the order-statistic selection (quick_select,   *)
(* top_k_elements), the backward trading-calendar walk                     *)
(* (get_previous_trading_day), the reason aggregation                      *)
(* (analyze_limit_up_reason), and the render cycle of app() with its two   *)
(* fetches, the metrics and the streak groups.                             *)
(*                                                                         *)
(* Python values are tagged records: a number, a string (a sequence of     *)
(* one-character strings) or a missing value (NaN / None).  Python indices *)
(* are kept 0-based; At(a, i) reads a Python list at index i.              *)
(***************************************************************************)
EXTENDS Integers, Sequences, FiniteSets, TLC

VARIABLES
    pc,             \* position of the modelled call or render cycle
    series,         \* the caller's sequence of numbers handed to selection
    k,              \* the rank asked for
    arr,            \* the list quick_select works on (mutated in place)
    ret,            \* the value returned by the selection call
    date,           \* the date handed to get_previous_trading_day
    previous_date,  \* the walker's candidate / result
    isWorkday,      \* calendar oracle: is_workday
    isHoliday,      \* calendar oracle: is_holiday
    fetchSel,       \* what the fetch collaborator yields for the selected date
    fetchPrev,      \* what it yields for the previous trading date
    limit_up_df,    \* the DataFrame object app holds for the selected date
    previous_df,    \* the DataFrame object app holds for the previous date
    chart_data,     \* the filtered concept counts
    metrics,        \* what calculate_metrics returned
    messages,       \* st.error / st.warning / st.info messages shown
    shown,          \* the four st.metric values shown
    grouped,        \* the sorted groups not yet rendered
    rendered,       \* the groups rendered so far, in order
    raised          \* the exception that ended the render cycle

selVars == <<series, k, arr, ret>>
calVars == <<date, previous_date, isWorkday, isHoliday>>
appVars == <<fetchSel, fetchPrev, limit_up_df, previous_df, chart_data, metrics,
             messages, shown, grouped, rendered, raised>>

vars == <<pc, selVars, calVars, appVars>>

-----------------------------------------------------------------------------
(* Bounds of the model *)

MaxLen == 5      \* longest sequence handed to selection
MaxVal == 2      \* numbers handed to selection range over -1..MaxVal
MaxDate == 5     \* dates are 0..MaxDate; the oracle answers for 0..MaxDate-1

NoValue == "NoValue"
NoFrame == [isNone |-> TRUE, cols |-> {}, rows |-> <<>>]
NoMetricsYet == [kind |-> "unset", count |-> 0, ratio |-> 0]
NoShownYet == [set |-> FALSE, today |-> 0, previous |-> 0, change |-> 0, ratio |-> 0]

-----------------------------------------------------------------------------
(* quick_select, top_k_elements *)

At(a, i) == a[i + 1]

Swap(a, i, j) == [a EXCEPT ![i + 1] = a[j + 1], ![j + 1] = a[i + 1]]

RECURSIVE PartitionLoopAsc(_, _, _, _, _)
\* the partition loop with the comparison turned round (ascending order)
PartitionLoopAsc(a, pivot, i, j, right) ==
    IF j >= right THEN [arr |-> a, i |-> i]
    ELSE IF At(a, j) <= pivot
         THEN PartitionLoopAsc(Swap(a, i + 1, j), pivot, i + 1, j + 1, right)
         ELSE PartitionLoopAsc(a, pivot, i, j + 1, right)

RECURSIVE PartitionLoop(_, _, _, _, _)
\* for j in range(left, right): if arr[j] >= pivot: i += 1; swap(arr[i], arr[j])
PartitionLoop(a, pivot, i, j, right) ==
    IF j >= right THEN [arr |-> a, i |-> i]
    ELSE IF At(a, j) >= pivot
         THEN PartitionLoop(Swap(a, i + 1, j), pivot, i + 1, j + 1, right)
         ELSE PartitionLoop(a, pivot, i, j + 1, right)

\* partition(left, right): the list after partitioning and the pivot's index
Partition(a, left, right) ==
    LET r == PartitionLoop(a, At(a, right), left - 1, left, right)
    IN  [arr |-> Swap(r.arr, r.i + 1, right), idx |-> r.i + 1]

RECURSIVE Select(_, _, _, _)
\* select(left, right, k): the list as it is left and the value returned
Select(a, left, right, kk) ==
    IF left = right THEN [arr |-> a, ret |-> At(a, left)]
    ELSE LET p == Partition(a, left, right)
             rank == p.idx - left + 1
         IN  IF rank = kk THEN [arr |-> p.arr, ret |-> At(p.arr, p.idx)]
             ELSE IF rank > kk THEN Select(p.arr, left, p.idx - 1, kk)
             ELSE Select(p.arr, p.idx + 1, right, kk - rank)

\* quick_select with an out-of-range rank clamped to the nearest valid one
QuickSelectClamp(a, kk) ==
    IF Len(a) = 0 THEN [arr |-> a, ret |-> 0]
    ELSE Select(a, 0, Len(a) - 1,
                IF kk <= 0 THEN 1 ELSE IF kk > Len(a) THEN Len(a) ELSE kk)

\* quick_select(arr, k): arr is mutated in place
QuickSelect(a, kk) ==
    IF Len(a) = 0 \/ kk <= 0 \/ kk > Len(a) THEN [arr |-> a, ret |-> 0]
    ELSE Select(a, 0, Len(a) - 1, kk)

\* series.tolist(): a fresh list holding the series' values
ToList(s) == [i \in 1..Len(s) |-> s[i]]

\* top_k_elements(series, k): the working list and the value returned
TopKElements(s, kk) ==
    IF Len(s) = 0 \/ kk <= 0 \/ kk > Len(s) THEN [arr |-> <<>>, ret |-> 0]
    ELSE QuickSelect(ToList(s), kk)

-----------------------------------------------------------------------------
(* Selection called on its own *)

SeqsUpTo(S, n) == UNION {[1..m -> S] : m \in 0..n}

CalIdle ==
    /\ date = 0 /\ previous_date = 0
    /\ isWorkday = <<>> /\ isHoliday = <<>>

AppIdle ==
    /\ fetchSel = NoFrame /\ fetchPrev = NoFrame
    /\ limit_up_df = NoFrame /\ previous_df = NoFrame
    /\ chart_data = <<>> /\ metrics = NoMetricsYet
    /\ messages = {} /\ shown = NoShownYet
    /\ grouped = <<>> /\ rendered = <<>> /\ raised = NoValue

SelIdle == series = <<>> /\ k = 0 /\ arr = <<>> /\ ret = NoValue

InitSelect ==
    /\ pc = "select_start"
    /\ series \in SeqsUpTo(-1..MaxVal, MaxLen)
    /\ k \in -1..(MaxLen + 1)
    /\ arr = <<>>
    /\ ret = NoValue
    /\ CalIdle
    /\ AppIdle

\* quick_select(values, k) called with the caller's own list
CallQuickSelect ==
    /\ pc = "select_start"
    /\ LET r == QuickSelect(series, k)
       IN  arr' = r.arr /\ ret' = r.ret
    /\ pc' = "quick_select_done"
    /\ UNCHANGED <<series, k, calVars, appVars>>

\* top_k_elements(series, k)
CallTopK ==
    /\ pc = "select_start"
    /\ LET r == TopKElements(series, k)
       IN  arr' = r.arr /\ ret' = r.ret
    /\ pc' = "top_k_done"
    /\ UNCHANGED <<series, k, calVars, appVars>>

NextSelect == CallQuickSelect \/ CallTopK

SpecSelect == InitSelect /\ [][NextSelect]_vars

-----------------------------------------------------------------------------
(* get_previous_trading_day *)

\* while not is_workday(previous_date) or is_holiday(previous_date), with "and"
NotTradingAnd(d) == ~isWorkday[d] /\ isHoliday[d]

\* the loop condition: not is_workday(previous_date) or is_holiday(previous_date)
NotTrading(d) == ~isWorkday[d] \/ isHoliday[d]

InitCal ==
    /\ pc = "cal_start"
    /\ date \in 0..MaxDate
    /\ previous_date = date
    /\ isWorkday \in [0..(MaxDate - 1) -> BOOLEAN]
    /\ isHoliday \in [0..(MaxDate - 1) -> BOOLEAN]
    /\ SelIdle
    /\ AppIdle

\* previous_date = date - timedelta(days=1)
CalStart ==
    /\ pc = "cal_start"
    /\ date > 0
    /\ previous_date' = date - 1
    /\ pc' = "cal_loop"
    /\ UNCHANGED <<selVars, date, isWorkday, isHoliday, appVars>>

\* loop body: previous_date -= timedelta(days=1); the walk is cut at date 0,
\* the first date the modelled oracle answers for
CalStep ==
    /\ pc = "cal_loop"
    /\ NotTrading(previous_date)
    /\ previous_date > 0
    /\ previous_date' = previous_date - 1
    /\ UNCHANGED <<pc, selVars, date, isWorkday, isHoliday, appVars>>

\* return previous_date
CalReturn ==
    /\ pc = "cal_loop"
    /\ ~NotTrading(previous_date)
    /\ pc' = "cal_returned"
    /\ UNCHANGED <<selVars, calVars, appVars>>

NextCal == CalStart \/ CalStep \/ CalReturn

\* the walk is sequential code: a step that can be taken is taken
SpecCal == InitCal /\ [][NextCal]_vars /\ WF_vars(NextCal)

-----------------------------------------------------------------------------
(* Python values and DataFrames *)

Num(n) == [t |-> "num", n |-> n, s |-> <<>>]
Str(cs) == [t |-> "str", n |-> 0, s |-> cs]
NaN == [t |-> "nan", n |-> 0, s |-> <<>>]
Absent == [t |-> "absent", n |-> 0, s |-> <<>>]   \* the row has no such column

\* a DataFrame: the date-qualified columns it has ("streak" is the
\* consecutive-limit-up-days column, "reason" the reason-category column) and its rows; or None
Frame(cols, rows) == [isNone |-> FALSE, cols |-> cols, rows |-> rows]
None == [isNone |-> TRUE, cols |-> {}, rows |-> <<>>]

Row(streak, reason) == [streak |-> streak, reason |-> reason]

\* what pywencai.get does for a date: it raises, or it returns a DataFrame
Raises == [fails |-> TRUE, df |-> None]
Returns(df) == [fails |-> FALSE, df |-> df]

MaxRows == 4     \* most rows of a fetched DataFrame

-----------------------------------------------------------------------------
(* analyze_limit_up_reason *)

TopK == 5        \* the rank handed to top_k_elements

\* the sentinel reason (one symbol, holding no separator)
Unknown == <<"unknown">>

RECURSIVE SplitFrom(_, _, _, _)
\* str.split('+'): the substrings between separators, empty ones kept
SplitFrom(cs, i, cur, acc) ==
    IF i > Len(cs) THEN Append(acc, cur)
    ELSE IF cs[i] = "+" THEN SplitFrom(cs, i + 1, <<>>, Append(acc, cur))
    ELSE SplitFrom(cs, i + 1, Append(cur, cs[i]), acc)

Split(cs) == SplitFrom(cs, 1, <<>>, <<>>)

RECURSIVE Explode(_, _)
\* df[reason_col].str.split('+').explode(): one entry per substring of each
\* row in row order; a missing value stays one missing entry
Explode(rows, i) ==
    IF i > Len(rows) THEN <<>>
    ELSE (IF rows[i].reason.t = "str"
          THEN [j \in 1..Len(Split(rows[i].reason.s)) |->
                    Str(Split(rows[i].reason.s)[j])]
          ELSE <<NaN>>) \o Explode(rows, i + 1)

RECURSIVE Distinct(_, _, _)
\* the distinct non-missing values in order of first appearance
Distinct(xs, i, acc) ==
    IF i > Len(xs) THEN acc
    ELSE IF xs[i].t # "str" \/ \E j \in 1..Len(acc) : acc[j] = xs[i].s
         THEN Distinct(xs, i + 1, acc)
         ELSE Distinct(xs, i + 1, Append(acc, xs[i].s))

Occurrences(xs, c) ==
    Cardinality({i \in 1..Len(xs) : xs[i].t = "str" /\ xs[i].s = c})

RECURSIVE SortByCount(_, _, _)
\* the sort of value_counts: by count descending, equal counts in order of
\* first appearance
SortByCount(cs, i, acc) ==
    IF i > Len(cs) THEN acc
    ELSE LET pos == Cardinality({j \in 1..Len(acc) : acc[j].count >= cs[i].count})
         IN  SortByCount(cs, i + 1,
                 SubSeq(acc, 1, pos) \o <<cs[i]>> \o SubSeq(acc, pos + 1, Len(acc)))

\* reasons.value_counts().reset_index(): (concept, count) rows, missing dropped
ValueCounts(xs) ==
    LET cats == Distinct(xs, 1, <<>>)
        rows == [i \in 1..Len(cats) |->
                    [concept |-> cats[i], count |-> Occurrences(xs, cats[i])]]
    IN  SortByCount(rows, 1, <<>>)

\* the mask with > in place of >=
KeepConceptStrict(count, max_count) == count > max_count

\* the mask concept_counts[count] >= max_count
KeepConcept(count, max_count) == count >= max_count

\* if reason_col not in df.columns: df[reason_col] = <sentinel>   (df is the
\* caller's object: the column is added to it)
EnsureReasonCol(df) ==
    IF "reason" \in df.cols THEN df
    ELSE Frame(df.cols \cup {"reason"},
               [i \in 1..Len(df.rows) |->
                    [df.rows[i] EXCEPT !.reason = Str(Unknown)]])

\* analyze_limit_up_reason(df, date): the caller's df as it is left, the
\* counts series handed to top_k_elements, the working list, max_count and
\* the rows returned
AnalyzeLimitUpReason(df) ==
    LET df1 == EnsureReasonCol(df)
        concept_counts == ValueCounts(Explode(df1.rows, 1))
        counts == [i \in 1..Len(concept_counts) |-> concept_counts[i].count]
        top == TopKElements(counts, TopK)
    IN  [df |-> df1, series |-> counts, arr |-> top.arr, max_count |-> top.ret,
         chart_data |-> SelectSeq(concept_counts,
                            LAMBDA e : KeepConcept(e.count, top.ret))]

\* the reason strings the aggregation is run on
ReasonValues ==
    { Str(<<"a", "+", "b", "+", "c", "+", "d", "+", "e">>),
      Str(<<"f">>),
      Str(<<"a", "+", "f">>),
      Str(<<"a", "+", "a">>),
      Str(<<"a", "+">>),
      Str(<<>>),
      NaN }

ReasonFrames ==
    {Frame({"streak", "reason"}, [i \in 1..Len(rs) |-> Row(Num(1), rs[i])])
        : rs \in SeqsUpTo(ReasonValues, MaxRows)}
    \cup
    {Frame({"streak"}, [i \in 1..n |-> Row(Num(1), Absent)]) : n \in 0..MaxRows}

InitReason ==
    /\ pc = "analyze"
    /\ fetchSel \in {Returns(df) : df \in ReasonFrames}
    /\ limit_up_df = fetchSel.df
    /\ fetchPrev = Raises /\ previous_df = None
    /\ chart_data = <<>> /\ metrics = NoMetricsYet
    /\ messages = {} /\ shown = NoShownYet
    /\ grouped = <<>> /\ rendered = <<>> /\ raised = NoValue
    /\ SelIdle
    /\ CalIdle

\* chart_data = analyze_limit_up_reason(limit_up_df, selected_date)
Analyze ==
    /\ pc = "analyze"
    /\ LET r == AnalyzeLimitUpReason(limit_up_df)
       IN  /\ limit_up_df' = r.df
           /\ series' = r.series
           /\ k' = TopK
           /\ arr' = r.arr
           /\ ret' = r.max_count
           /\ chart_data' = r.chart_data
    /\ pc' = "analyze_done"
    /\ UNCHANGED <<calVars, fetchSel, fetchPrev, previous_df, metrics, messages,
                   shown, grouped, rendered, raised>>

NextReason == Analyze

SpecReason == InitReason /\ [][NextReason]_vars

-----------------------------------------------------------------------------
(* float(), safe_float, string order and formatting *)

Digits == <<"0", "1", "2", "3", "4", "5", "6", "7", "8", "9">>

IsDigit(c) == \E d \in 1..10 : Digits[d] = c

DigitVal(c) == (CHOOSE d \in 1..10 : Digits[d] = c) - 1

RECURSIVE DigitsValue(_, _)
DigitsValue(cs, acc) ==
    IF cs = <<>> THEN acc ELSE DigitsValue(Tail(cs), acc * 10 + DigitVal(Head(cs)))

RECURSIVE Pow10(_)
Pow10(n) == IF n = 0 THEN 1 ELSE 10 * Pow10(n - 1)

\* float(s) for a string of sign, digits and '.': the value as the fraction
\* num/den, or ok = FALSE where float raises ValueError (exponents, blanks,
\* "inf" and "nan" do not occur in the strings of the model)
ParseFloat(cs) ==
    LET signed == Len(cs) > 0 /\ cs[1] \in {"-", "+"}
        body == IF signed THEN Tail(cs) ELSE cs
        dots == {i \in 1..Len(body) : body[i] = "."}
        dot == IF dots = {} THEN Len(body) + 1 ELSE CHOOSE i \in dots : TRUE
        whole == SubSeq(body, 1, dot - 1)
        frac == SubSeq(body, dot + 1, Len(body))
        ok == /\ Cardinality(dots) <= 1
              /\ \A i \in 1..Len(body) : i \in dots \/ IsDigit(body[i])
              /\ Len(whole) + Len(frac) > 0
        mag == DigitsValue(whole \o frac, 0)
    IN  IF ok
        THEN [ok |-> TRUE,
              num |-> IF signed /\ cs[1] = "-" THEN 0 - mag ELSE mag,
              den |-> Pow10(Len(frac))]
        ELSE [ok |-> FALSE, num |-> 0, den |-> 1]

\* safe_float(value) > 1: a value float() rejects counts as 0.0, and a
\* missing value (nan, or None turned into 0.0) is not greater than 1
SafeFloatAbove1(v) ==
    IF v.t = "num" THEN v.n > 1
    ELSE IF v.t = "str"
         THEN LET f == ParseFloat(v.s) IN f.ok /\ f.num > f.den
         ELSE FALSE

\* code points of the characters the model's strings are made of
Ord(c) ==
    CASE c = "+" -> 43 [] c = "-" -> 45 [] c = "." -> 46
      [] IsDigit(c) -> 48 + DigitVal(c)
      [] OTHER -> 97

RECURSIVE StrLE(_, _)
\* a <= b for Python strings
StrLE(a, b) ==
    IF a = <<>> THEN TRUE
    ELSE IF b = <<>> THEN FALSE
    ELSE IF Head(a) = Head(b) THEN StrLE(Tail(a), Tail(b))
    ELSE Ord(Head(a)) < Ord(Head(b))

RECURSIVE IntToChars(_)
\* str(n) for n >= 0
IntToChars(n) ==
    IF n < 10 THEN <<Digits[n + 1]>>
    ELSE IntToChars(n \div 10) \o <<Digits[(n % 10) + 1]>>

\* f"{days}": a string as it is, an integer as its digits, and a key of a
\* float column (a numeric column holding a missing value) with ".0"
Format(v, asFloat) ==
    IF v.t = "str" THEN v.s
    ELSE IF asFloat THEN IntToChars(v.n) \o <<".", "0">>
    ELSE IntToChars(v.n)

-----------------------------------------------------------------------------
(* get_market_data, calculate_metrics *)

\* get_market_data that answers a failed fetch with an empty DataFrame
GetMarketDataEmpty(outcome) ==
    IF outcome.fails THEN [df |-> Frame({}, <<>>), error |-> TRUE]
    ELSE [df |-> outcome.df, error |-> FALSE]

\* get_market_data(date): the value returned, and whether st.error was shown
GetMarketData(outcome) ==
    IF outcome.fails THEN [df |-> None, error |-> TRUE]
    ELSE [df |-> outcome.df, error |-> FALSE]

\* round(x / y, 0) to the nearest integer, halves to even
RoundDiv(x, y) ==
    LET q == x \div y
        r == x % y
    IN  IF 2 * r < y THEN q
        ELSE IF 2 * r > y THEN q + 1
        ELSE q + (q % 2)

\* calculate_metrics(limit_up_df, date): {} for None, None when the streak
\* column cannot be read, else the count and the streak ratio in hundredths
\* of a percent
CalculateMetrics(df) ==
    IF df.isNone THEN [kind |-> "empty", count |-> 0, ratio |-> 0]
    ELSE IF Len(df.rows) > 0 /\ "streak" \notin df.cols
         THEN [kind |-> "none", count |-> 0, ratio |-> 0]
    ELSE [kind |-> "dict",
          count |-> Len(df.rows),
          ratio |-> IF Len(df.rows) > 0
                    THEN RoundDiv(
                           Cardinality({i \in 1..Len(df.rows) :
                                          SafeFloatAbove1(df.rows[i].streak)})
                             * 10000,
                           Len(df.rows))
                    ELSE 0]

-----------------------------------------------------------------------------
(* the streak groups of app() *)

AnnotateFrom == 10   \* group sizes from which the count is shown

\* order of two group keys of one column: numbers by value, strings by
\* code point
KeyLE(a, b) == IF a.t = "num" THEN a.n <= b.n ELSE StrLE(a.s, b.s)

RECURSIVE SortKeys(_, _)
SortKeys(keys, acc) ==
    IF keys = {} THEN acc
    ELSE LET x == CHOOSE x \in keys : \A y \in keys : KeyLE(x, y)
         IN  SortKeys(keys \ {x}, Append(acc, x))

RECURSIVE RowsWith(_, _, _)
\* the rows (by position) whose streak value is the key, in row order
RowsWith(rows, key, i) ==
    IF i > Len(rows) THEN <<>>
    ELSE (IF rows[i].streak = key THEN <<i>> ELSE <<>>) \o RowsWith(rows, key, i + 1)

\* df_processed.groupby(streak column, sort=True): one group per distinct
\* value, keys ascending; rows whose key is missing are left out
GroupBy(rows) ==
    LET keys == {rows[i].streak : i \in {j \in 1..Len(rows) : rows[j].streak.t # "nan"}}
        sorted == SortKeys(keys, <<>>)
    IN  [g \in 1..Len(sorted) |->
            [days |-> sorted[g], rows |-> RowsWith(rows, sorted[g], 1)]]

\* the sort key: float(x[0]) if isinstance(x[0], str) else x[0]
SortKey(days) ==
    IF days.t = "str" THEN ParseFloat(days.s)
    ELSE [ok |-> TRUE, num |-> days.n, den |-> 1]

KeyGE(a, b) == a.num * b.den >= b.num * a.den

RECURSIVE SortedReverse(_, _, _)
\* sorted(groups, key=..., reverse=True): descending, equal keys in input order
SortedReverse(gs, i, acc) ==
    IF i > Len(gs) THEN acc
    ELSE LET pos == Cardinality({j \in 1..Len(acc) :
                        KeyGE(SortKey(acc[j].days), SortKey(gs[i].days))})
         IN  SortedReverse(gs, i + 1,
                 SubSeq(acc, 1, pos) \o <<gs[i]>> \o SubSeq(acc, pos + 1, Len(acc)))

FirstBoard == <<"first_board">>
Boards == <<"boards">>

\* display_text: the first-board label if days == 1 else f"{days}" + suffix
DisplayText(days, asFloat) ==
    IF days.t = "num" /\ days.n = 1 THEN FirstBoard
    ELSE Format(days, asFloat) \o Boards

\* display_count: f" ({group_count})" if group_count >= 10 else ""
DisplayCount(n) ==
    IF n >= AnnotateFrom THEN <<" ", "(">> \o IntToChars(n) \o <<")">> ELSE <<>>

-----------------------------------------------------------------------------
(* app(): one render cycle *)

\* the values a streak column holds: a numeric column, or a column of strings
NumericStreaks == {Num(1), Num(2), NaN}
StringStreaks ==
    {Str(<<"1">>), Str(<<"1", ".", "0">>), Str(<<"2">>), Str(<<"-", "-">>), NaN}

\* the reason column of a fetched frame: absent, or one value in every row
ReasonFills == {Absent, Str(<<"a">>), NaN}

ColsOf(streak, reason) ==
    (IF streak THEN {"streak"} ELSE {}) \cup (IF reason # Absent THEN {"reason"} ELSE {})

AppFrames ==
    {Frame(ColsOf(TRUE, rf), [i \in 1..Len(ss) |-> Row(ss[i], rf)])
        : ss \in SeqsUpTo(NumericStreaks, MaxRows) \cup SeqsUpTo(StringStreaks, MaxRows),
          rf \in ReasonFills}
    \cup
    {Frame(ColsOf(FALSE, rf), [i \in 1..n |-> Row(Absent, rf)])
        : n \in 0..MaxRows, rf \in ReasonFills}

PrevFrames ==
    {Frame({"streak", "reason"}, <<>>),
     Frame({"streak", "reason"}, <<Row(Num(1), Str(<<"a">>))>>)}

InitApp ==
    /\ pc = "app_start"
    /\ date = MaxDate
    /\ previous_date = date
    /\ isWorkday \in {[d \in 0..(MaxDate - 1) |-> TRUE],
                      [d \in 0..(MaxDate - 1) |-> d # MaxDate - 1]}
    /\ isHoliday = [d \in 0..(MaxDate - 1) |-> ~isWorkday[d]]
    /\ fetchSel \in {Raises} \cup {Returns(df) : df \in AppFrames}
    /\ fetchPrev \in {Raises} \cup {Returns(df) : df \in PrevFrames}
    /\ limit_up_df = None /\ previous_df = None
    /\ chart_data = <<>> /\ metrics = NoMetricsYet
    /\ messages = {} /\ shown = NoShownYet
    /\ grouped = <<>> /\ rendered = <<>> /\ raised = NoValue
    /\ SelIdle

\* selected_date == today and it is before 09:15: st.info, return
AppTooEarly ==
    /\ pc = "app_start"
    /\ messages' = messages \cup {"info_no_data_today"}
    /\ pc' = "app_done"
    /\ UNCHANGED <<selVars, calVars, fetchSel, fetchPrev, limit_up_df, previous_df,
                   chart_data, metrics, shown, grouped, rendered, raised>>

\* otherwise: previous_date = get_previous_trading_day(selected_date)
AppSelected ==
    /\ pc = "app_start"
    /\ pc' = "cal_start"
    /\ UNCHANGED <<selVars, calVars, appVars>>

\* limit_up_df = get_market_data(selected_date)
AppFetchSelected ==
    /\ pc = "cal_returned"
    /\ LET r == GetMarketData(fetchSel)
       IN  /\ limit_up_df' = r.df
           /\ messages' = messages \cup (IF r.error THEN {"error_selected"} ELSE {})
    /\ pc' = "fetch_previous"
    /\ UNCHANGED <<selVars, calVars, fetchSel, fetchPrev, previous_df, chart_data,
                   metrics, shown, grouped, rendered, raised>>

\* previous_df = get_market_data(previous_date)
AppFetchPrevious ==
    /\ pc = "fetch_previous"
    /\ LET r == GetMarketData(fetchPrev)
       IN  /\ previous_df' = r.df
           /\ messages' = messages \cup (IF r.error THEN {"error_previous"} ELSE {})
    /\ pc' = "fetched"
    /\ UNCHANGED <<selVars, calVars, fetchSel, fetchPrev, limit_up_df, chart_data,
                   metrics, shown, grouped, rendered, raised>>

\* else: st.warning (no market data found for the date)
AppNoData ==
    /\ pc = "fetched"
    /\ limit_up_df.isNone
    /\ messages' = messages \cup {"warning_not_found"}
    /\ pc' = "app_done"
    /\ UNCHANGED <<selVars, calVars, fetchSel, fetchPrev, limit_up_df, previous_df,
                   chart_data, metrics, shown, grouped, rendered, raised>>

\* metrics = calculate_metrics(limit_up_df, selected_date); if metrics is
\* None: return   (calculate_metrics has shown st.info)
AppMetrics ==
    /\ pc = "fetched"
    /\ ~limit_up_df.isNone
    /\ metrics' = CalculateMetrics(limit_up_df)
    /\ IF metrics'.kind = "none"
       THEN messages' = messages \cup {"info_no_data"} /\ pc' = "app_done"
       ELSE messages' = messages /\ pc' = "analyze"
    /\ UNCHANGED <<selVars, calVars, fetchSel, fetchPrev, limit_up_df, previous_df,
                   chart_data, shown, grouped, rendered, raised>>

\* if not chart_data.empty: the totals, the change and the four st.metric
\* values; len(previous_df) raises TypeError when previous_df is None
AppChart ==
    /\ pc = "analyze_done"
    /\ IF chart_data = <<>>
       THEN pc' = "group" /\ UNCHANGED <<shown, raised>>
       ELSE IF previous_df.isNone
       THEN pc' = "app_done" /\ raised' = "TypeError" /\ UNCHANGED shown
       ELSE /\ shown' = [set |-> TRUE,
                         today |-> metrics.count,
                         previous |-> Len(previous_df.rows),
                         change |-> Len(limit_up_df.rows) - Len(previous_df.rows),
                         ratio |-> metrics.ratio]
            /\ pc' = "group"
            /\ UNCHANGED raised
    /\ UNCHANGED <<selVars, calVars, fetchSel, fetchPrev, limit_up_df, previous_df,
                   chart_data, metrics, messages, grouped, rendered>>

\* df_processed = limit_up_df[[...]] (KeyError without the streak column);
\* grouped = df_processed.groupby(...); sorted(grouped, key=..., reverse=True)
\* (ValueError when a string key is not a number)
AppGroup ==
    /\ pc = "group"
    /\ IF "streak" \notin limit_up_df.cols
       THEN pc' = "app_done" /\ raised' = "KeyError" /\ UNCHANGED grouped
       ELSE LET gs == GroupBy(limit_up_df.rows)
            IN  IF \E g \in 1..Len(gs) : ~SortKey(gs[g].days).ok
                THEN pc' = "app_done" /\ raised' = "ValueError" /\ UNCHANGED grouped
                ELSE /\ grouped' = SortedReverse(gs, 1, <<>>)
                     /\ pc' = "render"
                     /\ UNCHANGED raised
    /\ UNCHANGED <<selVars, calVars, fetchSel, fetchPrev, limit_up_df, previous_df,
                   chart_data, metrics, messages, shown, rendered>>

\* one turn of the for loop: the heading and the table of the next group
AppRenderGroup ==
    /\ pc = "render"
    /\ grouped # <<>>
    /\ LET g == Head(grouped)
       IN  rendered' = Append(rendered,
                          [days |-> g.days,
                           label |-> DisplayText(g.days,
                                        \E i \in 1..Len(limit_up_df.rows) :
                                            limit_up_df.rows[i].streak.t = "nan"),
                           annotation |-> DisplayCount(Len(g.rows)),
                           rows |-> g.rows])
    /\ grouped' = Tail(grouped)
    /\ UNCHANGED <<pc, selVars, calVars, fetchSel, fetchPrev, limit_up_df,
                   previous_df, chart_data, metrics, messages, shown, raised>>

\* the loop is over
AppFinish ==
    /\ pc = "render"
    /\ grouped = <<>>
    /\ pc' = "app_done"
    /\ UNCHANGED <<selVars, calVars, appVars>>

NextApp ==
    \/ AppTooEarly
    \/ AppSelected
    \/ CalStart
    \/ CalStep
    \/ CalReturn
    \/ AppFetchSelected
    \/ AppFetchPrevious
    \/ AppNoData
    \/ AppMetrics
    \/ Analyze
    \/ AppChart
    \/ AppGroup
    \/ AppRenderGroup
    \/ AppFinish

SpecApp == InitApp /\ [][NextApp]_vars

-----------------------------------------------------------------------------
(* Properties of the selection *)

Indices(s) == 1..Len(s)

\* v is the element at 1-indexed position kk of s sorted in descending order,
\* equal values occupying distinct ranks
IsKthLargest(s, kk, v) ==
    /\ \E i \in Indices(s) : s[i] = v
    /\ Cardinality({i \in Indices(s) : s[i] > v}) < kk
    /\ kk <= Cardinality({i \in Indices(s) : s[i] >= v})

SelectionDone == pc \in {"quick_select_done", "top_k_done"}

RankInRange == Len(series) > 0 /\ 1 <= k /\ k <= Len(series)

\* C1: for a non-empty sequence and 1 <= k <= len, the selection returns the
\* k-th largest value (ties count as distinct ranks); k = 1 gives the maximum
\* and k = len the minimum.
C1_KthLargest ==
    (SelectionDone /\ RankInRange) =>
        /\ IsKthLargest(series, k, ret)
        /\ (k = 1 => \A i \in Indices(series) : series[i] <= ret)
        /\ (k = Len(series) => \A i \in Indices(series) : series[i] >= ret)

\* quick_select has returned the 2nd largest of a sequence holding a tie
C1_Witness ==
    /\ pc = "quick_select_done"
    /\ Len(series) >= 3 /\ k = 2
    /\ \E i, j \in Indices(series) : i < j /\ series[i] = series[j]
    /\ \E i \in Indices(series) : series[i] > ret
    /\ ret # 0

\* C2: with an empty sequence, or k <= 0, or k > len, quick_select and
\* top_k_elements both return the sentinel 0.
C2_SentinelZero ==
    (SelectionDone /\ ~RankInRange) => ret = 0

\* quick_select was asked for rank len+1 of a sequence that does not hold 0
C2_Witness ==
    /\ pc = "quick_select_done"
    /\ Len(series) >= 2 /\ k = Len(series) + 1
    /\ \A i \in Indices(series) : series[i] # 0
    /\ ret = 0

-----------------------------------------------------------------------------
(* Properties of the calendar walk *)

TradingDay(d) == isWorkday[d] /\ ~isHoliday[d]

HasTradingDayBefore == \E d \in 0..(date - 1) : TradingDay(d)

\* p is the latest trading day before the date
IsPreviousTradingDay(p) ==
    /\ p \in 0..(date - 1)
    /\ TradingDay(p)
    /\ \A d \in (p + 1)..(date - 1) : ~TradingDay(d)

\* C4: when some date before D is a trading day, the walk terminates and
\* returns the latest trading day before D.
C4_PreviousTradingDay ==
    /\ [](HasTradingDayBefore /\ pc = "cal_returned"
            => IsPreviousTradingDay(previous_date))
    /\ [](HasTradingDayBefore /\ pc = "cal_start" => <>(pc = "cal_returned"))

\* the walk stepped back over at least two non-trading days (a holiday that
\* is a workday among them) before it returned
C4_Witness ==
    /\ pc = "cal_returned"
    /\ previous_date <= date - 3
    /\ \E d \in (previous_date + 1)..(date - 1) : isWorkday[d] /\ isHoliday[d]
    /\ \E d \in (previous_date + 1)..(date - 1) : ~isWorkday[d]

-----------------------------------------------------------------------------
(* Properties of the reason aggregation *)

\* the positions at which a '+'-separated tag of cs starts
TagStarts(cs) == {a \in 1..(Len(cs) + 1) : a = 1 \/ cs[a - 1] = "+"}

\* the tag of cs that starts at position a: up to the next '+' or the end
TagAt(cs, a) ==
    LET stop == CHOOSE b \in a..(Len(cs) + 1) :
                    /\ \A c \in a..(b - 1) : cs[c] # "+"
                    /\ (b = Len(cs) + 1 \/ cs[b] = "+")
    IN  SubSeq(cs, a, stop - 1)

\* the (Record, tag) pairs of a RecordSet: <<record, position, tag>>; a
\* RecordSet without the reason field gives each Record the sentinel tag
TagPairs(df) ==
    IF "reason" \notin df.cols
    THEN {<<i, 1, Unknown>> : i \in 1..Len(df.rows)}
    ELSE UNION {
            IF df.rows[i].reason.t = "str"
            THEN {<<i, a, TagAt(df.rows[i].reason.s, a)>>
                    : a \in TagStarts(df.rows[i].reason.s)}
            ELSE {}
          : i \in 1..Len(df.rows)}

TagCount(df, c) == Cardinality({p \in TagPairs(df) : p[3] = c})

Categories(df) == {p[3] : p \in TagPairs(df)}

Retained == {<<chart_data[i].concept, chart_data[i].count>> : i \in 1..Len(chart_data)}

C9_NoMutation ==
    pc = "analyze_done" =>
        /\ limit_up_df = fetchSel.df
        /\ \A i \in 1..(Len(series) - 1) : series[i] >= series[i + 1]

-----------------------------------------------------------------------------
(* Properties of the render cycle *)

SelFetchDone ==
    \/ pc \in {"fetch_previous", "fetched", "analyze", "analyze_done", "group", "render"}
    \/ pc = "app_done" /\ "info_no_data_today" \notin messages

PrevFetchDone == SelFetchDone /\ pc # "fetch_previous"

\* C5: a failed fetch, for the selected or the previous trading date, shows as
\* an explicit failure (an error message and no DataFrame) and is never
\* rendered, counted or measured as a RecordSet; a fetched RecordSet, empty
\* ones included, is never reported as a retrieval failure.
C5_FailureNotEmpty ==
    /\ (SelFetchDone /\ fetchSel.fails) =>
          /\ "error_selected" \in messages
          /\ limit_up_df.isNone
          /\ metrics.kind = "unset" /\ ~shown.set
          /\ chart_data = <<>> /\ rendered = <<>>
          /\ (pc = "app_done" => "warning_not_found" \in messages)
    /\ (PrevFetchDone /\ fetchPrev.fails) =>
          /\ "error_previous" \in messages
          /\ previous_df.isNone
          /\ ~shown.set
    /\ ~fetchSel.fails =>
          /\ "error_selected" \notin messages
          /\ "warning_not_found" \notin messages
          /\ (SelFetchDone => /\ ~limit_up_df.isNone
                               /\ Len(limit_up_df.rows) = Len(fetchSel.df.rows))
          /\ (shown.set => shown.today = Len(fetchSel.df.rows))
    /\ ~fetchPrev.fails =>
          /\ "error_previous" \notin messages
          /\ (PrevFetchDone => previous_df = fetchPrev.df)
          /\ (shown.set => shown.previous = Len(fetchPrev.df.rows))

\* the fetch for the previous trading date failed, the one for the selected
\* date returned an empty RecordSet, and the render cycle is over
C5_Witness ==
    /\ pc = "app_done"
    /\ fetchPrev.fails
    /\ ~fetchSel.fails /\ fetchSel.df.rows = <<>>
    /\ "error_previous" \in messages
    /\ metrics.kind = "dict"

\* the for loop over the groups ran to its end
RenderComplete == pc = "app_done" /\ metrics.kind = "dict" /\ raised = NoValue

GroupsHolding(i) ==
    {g \in 1..Len(rendered) : \E j \in 1..Len(rendered[g].rows) : rendered[g].rows[j] = i}

RECURSIVE SumSizes(_)
SumSizes(gs) == IF gs = <<>> THEN 0 ELSE Len(Head(gs).rows) + SumSizes(Tail(gs))

\* C6: the rendered groups partition the fetched RecordSet: every Record is in
\* exactly one group and the group sizes add up to the number of Records.
C6_GroupsPartition ==
    RenderComplete =>
        /\ \A i \in 1..Len(fetchSel.df.rows) : Cardinality(GroupsHolding(i)) = 1
        /\ SumSizes(rendered) = Len(fetchSel.df.rows)

\* the streak value of a Record cannot be coerced to a number
NotCoercible(v) == v.t = "nan" \/ (v.t = "str" /\ ~ParseFloat(v.s).ok)

\* C7: a streak value that cannot be coerced never raises: the ratio and the
\* groups are computed, and each such Record is in a group of streak 0.
C7_CoercionNeverRaises ==
    /\ raised # "ValueError"
    /\ RenderComplete =>
          \A i \in 1..Len(fetchSel.df.rows) :
              NotCoercible(fetchSel.df.rows[i].streak) =>
                  \E g \in GroupsHolding(i) :
                      /\ SortKey(rendered[g].days).ok
                      /\ SortKey(rendered[g].days).num = 0

\* C8: consecutive rendered groups are in strictly descending order of the
\* numeric streak value.
C8_StrictlyDescending ==
    \A g \in 1..(Len(rendered) - 1) :
        ~KeyGE(SortKey(rendered[g + 1].days), SortKey(rendered[g].days))

\* the group's streak value is 1, as a number or as a numeric string
StreakIsOne(days) ==
    LET f == SortKey(days) IN f.ok /\ f.num = f.den

\* C10: a rendered group is labelled first-board exactly when its streak
\* value is 1, number or numeric string, and else by its streak count.
C10_FirstBoardLabel ==
    \A g \in 1..Len(rendered) :
        /\ (rendered[g].label = FirstBoard) <=> StreakIsOne(rendered[g].days)
        /\ ~StreakIsOne(rendered[g].days) =>
              LET label == rendered[g].label
                  count == ParseFloat(SubSeq(label, 1, Len(label) - 1))
                  days == SortKey(rendered[g].days)
              IN  /\ Len(label) > 1 /\ label[Len(label)] = Boards[1]
                  /\ count.ok /\ count.num * days.den = days.num * count.den

====
